---- MODULE Spec2Model ----
(***************************************************************************)
(* Equilix-AI: the hash-chained Ledger (src/ledger.py), the Compliance     *)
(* Justification Engine and the Test Proposal Source (src/compliance.py).  *)
(*                                                                         *)
(* Four specifications share the module's variables:                      *)
(*   SpecLedger  sequential Ledger.append / Ledger.read_latest calls, with *)
(*               storage faults at the insert or the commit step;          *)
(*   SpecConc    NumProcs concurrent Ledger.append calls, interleaved at   *)
(*               their SELECT, INSERT and COMMIT statements;               *)
(*   SpecEngine  calls of ComplianceEngine.assess_test_and_justify on one  *)
(*               engine, whose class attribute RULES is shared state;      *)
(*   SpecLLM     calls of generate_tests_via_llm.                          *)
(***************************************************************************)
EXTENDS Integers, Sequences, FiniteSets, TLC

VARIABLES
    ledger,           \* committed rows of table ledger, in idx order
    sqlite_sequence,  \* AUTOINCREMENT counter of table ledger (0: no row yet)
    outcomes,         \* per finished append call: "ok", "insert" or "commit"
    returned,         \* the hashes returned by the appends that returned
    lastRead,         \* the last read_latest call: [called, limit, rows], and
                      \* the table it ran on
    conn,             \* per concurrent caller: [pc, payload, ts, prev]
    txn,              \* the open write transaction: [owner, rows] (owner 0: none)
    RULES,            \* ComplianceEngine.RULES: trigger key -> list of citation dicts
    lastAssess,       \* the last assess call: [called, req, steps, just, score]
    lastLLM           \* the last generate_tests_via_llm call

ledgerVars == <<ledger, sqlite_sequence, outcomes, returned, lastRead>>
concVars   == <<conn, txn>>
engineVars == <<RULES, lastAssess>>
vars == <<ledger, sqlite_sequence, outcomes, returned, lastRead, conn, txn,
          RULES, lastAssess, lastLLM>>

----------------------------------------------------------------------------
(* Bounds of the model *)

MaxCalls == 3      \* append calls of a sequential run
MaxLimit == 3      \* read_latest limits range over -MaxLimit..MaxLimit
NumProcs == 2      \* concurrent append callers (K)

Payloads == {"a", "b", "c"}
Timestamps == {1, 2}   \* the values time.time() yields (they may collide)
Limits == (0 - MaxLimit)..MaxLimit
Procs == 1..NumProcs

----------------------------------------------------------------------------
(* HashChain: src/ledger.py lines 31-34 *)

\* prev = "" when the table holds no row
EmptyHash == <<>>

\* blob = f"{ts}|{payload}|{prev}"
Blob(ts, payload, prev) == <<ts, "|", payload, "|", prev>>

\* hashlib.sha256(blob).hexdigest(), as an ideal (collision-free) digest
Digest(blob) == <<"sha256", blob>>

----------------------------------------------------------------------------
(* The table and its statements *)

MaxOf(S) == CHOOSE x \in S : \A y \in S : y <= x

\* SELECT hash FROM ledger ORDER BY idx DESC LIMIT 1; row[0] if row else ""
TipOldest(rows) == IF rows = <<>> THEN EmptyHash ELSE rows[1].hash
Tip(rows) == IF rows = <<>> THEN EmptyHash ELSE rows[Len(rows)].hash

\* idx INTEGER PRIMARY KEY AUTOINCREMENT: one more than the largest rowid the
\* table has ever held (the larger of sqlite_sequence and the current maximum)
NextIdx(rows, seq) ==
    MaxOf({seq} \cup {rows[i].idx : i \in 1..Len(rows)}) + 1

\* INSERT INTO ledger (timestamp, payload, prev_hash, hash) VALUES (?, ?, ?, ?)
InsertRow(rows, seq, ts, payload, prev, h) ==
    Append(rows, [idx |-> NextIdx(rows, seq), timestamp |-> ts,
                  payload |-> payload, prev_hash |-> prev, hash |-> h])

\* What a transaction that never commits leaves of the database [rows, seq]:
\* the inserted row and the counter update are rolled back together.
RollbackKeepsCounter(rows, seq, pending) ==
    [rows |-> rows, seq |-> NextIdx(rows, seq)]
Rollback(rows, seq, pending) == [rows |-> rows, seq |-> seq]

\* conn.commit(): the pending rows and the counter become the database
Commit(rows, seq, pending) ==
    [rows |-> pending, seq |-> pending[Len(pending)].idx]

\* SELECT ... FROM ledger ORDER BY idx DESC LIMIT ?  (SQLite: a negative LIMIT
\* is no limit)
SelectLatestAscending(rows, limit) ==
    LET n == IF limit < 0 \/ limit > Len(rows) THEN Len(rows) ELSE limit
    IN  [i \in 1..n |-> rows[Len(rows) - n + i]]
SelectLatest(rows, limit) ==
    LET n == IF limit < 0 \/ limit > Len(rows) THEN Len(rows) ELSE limit
    IN  [i \in 1..n |-> rows[Len(rows) + 1 - i]]

\* out.append({"idx": r[0], "timestamp": r[1], ...}) for each fetched row
ReadLatestResult(rows, limit) ==
    LET fetched == SelectLatest(rows, limit)
    IN  [i \in 1..Len(fetched) |->
            [idx |-> fetched[i].idx, timestamp |-> fetched[i].timestamp,
             payload |-> fetched[i].payload, prev_hash |-> fetched[i].prev_hash,
             hash |-> fetched[i].hash]]

----------------------------------------------------------------------------
(* Initial state *)

InitLedger ==
    /\ ledger = <<>>
    /\ sqlite_sequence = 0
    /\ outcomes = <<>>
    /\ returned = <<>>
    /\ lastRead = [called |-> FALSE, limit |-> 0, rows |-> <<>>, table |-> <<>>]

InitConc ==
    /\ conn = [p \in Procs |-> [pc |-> "start", payload |-> "a", ts |-> 1,
                                prev |-> EmptyHash]]
    /\ txn = [owner |-> 0, rows |-> <<>>]

----------------------------------------------------------------------------
(* Sequential Ledger calls *)

\* Ledger.append(payload), the whole call; fault names the statement that
\* raises ("none": the call returns h)
LedgerAppend(payload, ts, fault) ==
    /\ Len(outcomes) < MaxCalls
    /\ LET prev == Tip(ledger)
           h == Digest(Blob(ts, payload, prev))
           pending == InsertRow(ledger, sqlite_sequence, ts, payload, prev, h)
           db == CASE fault = "none" -> Commit(ledger, sqlite_sequence, pending)
                   [] fault = "insert" -> Rollback(ledger, sqlite_sequence, ledger)
                   [] OTHER -> Rollback(ledger, sqlite_sequence, pending)
       IN  /\ ledger' = db.rows
           /\ sqlite_sequence' = db.seq
           /\ outcomes' = Append(outcomes, IF fault = "none" THEN "ok" ELSE fault)
           /\ returned' = IF fault = "none" THEN Append(returned, h) ELSE returned
    /\ UNCHANGED <<lastRead, concVars, engineVars, lastLLM>>

\* Ledger.read_latest(limit)
LedgerReadLatest(limit) ==
    /\ lastRead' = [called |-> TRUE, limit |-> limit,
                    rows |-> ReadLatestResult(ledger, limit), table |-> ledger]
    /\ UNCHANGED <<ledger, sqlite_sequence, outcomes, returned, concVars,
                   engineVars, lastLLM>>

----------------------------------------------------------------------------
(* Concurrent Ledger.append calls: each caller has its own connection; the
   SELECT runs outside any transaction, the INSERT opens the write transaction
   (one writer at a time: a second writer waits for the lock), conn.commit()
   ends it. *)

\* lines 27-34: connect, SELECT the tip, take the time, compute the hash
AppendSelect(p, payload, ts) ==
    /\ conn[p].pc = "start"
    /\ conn' = [conn EXCEPT ![p] = [pc |-> "selected", payload |-> payload,
                                    ts |-> ts, prev |-> Tip(ledger)]]
    /\ UNCHANGED <<ledgerVars, txn, engineVars, lastLLM>>

\* lines 35-36: INSERT, inside the implicitly opened transaction
AppendInsert(p) ==
    /\ conn[p].pc = "selected"
    /\ txn.owner = 0
    /\ LET c == conn[p]
           h == Digest(Blob(c.ts, c.payload, c.prev))
       IN  txn' = [owner |-> p,
                   rows |-> InsertRow(ledger, sqlite_sequence, c.ts, c.payload,
                                      c.prev, h)]
    /\ conn' = [conn EXCEPT ![p].pc = "inserted"]
    /\ UNCHANGED <<ledgerVars, engineVars, lastLLM>>

\* lines 37-39: commit, close, return h
AppendCommit(p) ==
    /\ conn[p].pc = "inserted"
    /\ txn.owner = p
    /\ LET db == Commit(ledger, sqlite_sequence, txn.rows)
       IN  /\ ledger' = db.rows
           /\ sqlite_sequence' = db.seq
           /\ returned' = Append(returned, db.rows[Len(db.rows)].hash)
    /\ outcomes' = Append(outcomes, "ok")
    /\ txn' = [owner |-> 0, rows |-> <<>>]
    /\ conn' = [conn EXCEPT ![p].pc = "done"]
    /\ UNCHANGED <<lastRead, engineVars, lastLLM>>

----------------------------------------------------------------------------
(* Text: a Python str is a sequence of characters *)

\* str.lower(), on the letters the inputs use
LowerChar(c) ==
    CASE c = "A" -> "a" [] c = "C" -> "c" [] c = "D" -> "d" [] c = "E" -> "e"
      [] c = "H" -> "h" [] c = "I" -> "i" [] c = "N" -> "n" [] c = "P" -> "p"
      [] c = "R" -> "r" [] c = "T" -> "t" [] c = "U" -> "u" [] c = "Y" -> "y"
      [] OTHER -> c
Lower(s) == [i \in DOMAIN s |-> LowerChar(s[i])]

\* needle in hay
Contains(needle, hay) ==
    \E i \in 0..(Len(hay) - Len(needle)) :
        \A j \in 1..Len(needle) : hay[i + j] = needle[j]

\* " ".join(steps)
RECURSIVE Join(_)
Join(steps) ==
    IF steps = <<>> THEN <<>>
    ELSE IF Len(steps) = 1 THEN steps[1]
    ELSE steps[1] \o <<" ">> \o Join(Tail(steps))

RECURSIVE Concat(_)
Concat(parts) == IF parts = <<>> THEN <<>> ELSE parts[1] \o Concat(Tail(parts))

\* the literals of lines 86-94
TrigPhi == <<"p", "h", "i">>
TrigAudit == <<"a", "u", "d", "i", "t">>
TrigEncrypt == <<"e", "n", "c", "r", "y", "p", "t">>

----------------------------------------------------------------------------
(* Inputs of the engine *)

MaxReqFrags == 3   \* a requirement text is "R:" and up to MaxReqFrags fragments

ReqPrefix == <<"R", ":">>
ReqFragments ==
    { <<"a", "P", "H", "I", "d", " ">>,
      <<"A", "u", "d", "i", "t", " ">>,
      <<"E", "N", "C", "R", "Y", "P", "T", " ">> }

FragSeqs == UNION {[1..n -> ReqFragments] : n \in 0..MaxReqFrags}
ReqTexts == {ReqPrefix \o Concat(fs) : fs \in FragSeqs}

\* the "steps" lists of the test cases assessed
StepsLists ==
    { <<>>,
      << <<"l", "o", "g", "i", "n">> >>,
      << <<"a", "c", "t">>, <<"c", "h", "k", " ", "A", "U", "D", "I", "T">> >>,
      << <<"a", "u", "d">>, <<"i", "t">> >> }

----------------------------------------------------------------------------
(* ComplianceEngine: src/compliance.py lines 74-101.  Scores are counted in
   ten-thousandths until round(score, 3) puts them in thousandths. *)

BaseScore == 2000
PhiScore == 4000
AuditScore == 3000
EncryptScore == 2500
StepsScore == 1000
MaxScore == 1000

\* RULES as the class body builds it
RULES0 ==
    [PHI |-> << [reg |-> "HIPAA", clause |-> "164.308",
                 msg |-> <<"Access control for PHI required.">>] >>,
     audit |-> << [reg |-> "21CFR", clause |-> "11.10",
                   msg |-> <<"Audit trails required.">>] >>,
     encrypt |-> << [reg |-> "GDPR", clause |-> "32",
                     msg |-> <<"Encryption required for personal data.">>] >>]

\* the dict literal of line 95, a new object of each call
StepsCitation ==
    [reg |-> "21CFR", clause |-> "11.10",
     msg |-> <<"Audit trail mentioned in steps.">>]

\* A justification list holds objects: an item is either an alias of the
\* catalog's dict RULES[key][i], or a dict the call itself created (own).
IsAlias(item) == "key" \in DOMAIN item
AliasesOf(rules, key) == [i \in DOMAIN rules[key] |-> [key |-> key, i |-> i]]

\* the dict an item denotes
Deref(rules, item) == IF IsAlias(item) THEN rules[item.key][item.i] ELSE item.own

\* the justification list as its caller reads it
View(rules, just) == [i \in DOMAIN just |-> Deref(rules, just[i])]

\* f"Requirement relates to {j['reg']} {j['clause']} - {j['msg']}"
Explain(rec) ==
    <<"Requirement relates to ", rec.reg, " ", rec.clause, " - ">> \o rec.msg

\* j["explanation"] = ...
SetExplanationIntoMsg(rec) ==
    [f \in DOMAIN rec \cup {"explanation"} |->
        IF f \in {"explanation", "msg"} THEN Explain(rec) ELSE rec[f]]
SetExplanation(rec) ==
    [f \in DOMAIN rec \cup {"explanation"} |->
        IF f = "explanation" THEN Explain(rec) ELSE rec[f]]

\* any(j["reg"] == reg for j in justification)
AnyRegNever(rules, just, reg) == FALSE
AnyReg(rules, just, reg) ==
    \E i \in DOMAIN just : Deref(rules, just[i]).reg = reg

\* if trig in rt: justification += self.RULES[key]; score += inc
AddRule(acc, rules, rt, trig, key, inc) ==
    IF Contains(trig, rt)
    THEN [just |-> acc.just \o AliasesOf(rules, key), score |-> acc.score + inc]
    ELSE acc

\* round(score, 3), from ten-thousandths to thousandths
Round3(score) == (score + 5) \div 10

\* min(1.0, ...)
ClampNone(score) == score
Clamp(score) == IF MaxScore < score THEN MaxScore ELSE score

\* lines 93-96: the scan of the steps
StepsRule(acc, rules, steps_text) ==
    IF Contains(TrigAudit, steps_text) /\ ~AnyReg(rules, acc.just, "21CFR")
    THEN [just |-> Append(acc.just, [own |-> StepsCitation]),
          score |-> acc.score + StepsScore]
    ELSE acc

\* lines 86-91: the scan of the requirement
RequirementRules(rules, rt) ==
    AddRule(AddRule(AddRule([just |-> <<>>, score |-> BaseScore],
                            rules, rt, TrigPhi, "PHI", PhiScore),
                    rules, rt, TrigAudit, "audit", AuditScore),
            rules, rt, TrigEncrypt, "encrypt", EncryptScore)

\* lines 98-101: the explanation of every record of the list, written into the
\* record itself, and the result [just, score, rules] (rules: the catalog the
\* call leaves)
Explained(rules, acc) ==
    [just |-> [n \in DOMAIN acc.just |->
                  IF IsAlias(acc.just[n]) THEN acc.just[n]
                  ELSE [own |-> SetExplanation(acc.just[n].own)]],
     score |-> Clamp(Round3(acc.score)),
     rules |-> [k \in DOMAIN rules |->
                  [i \in DOMAIN rules[k] |->
                      IF \E n \in DOMAIN acc.just :
                            acc.just[n] = [key |-> k, i |-> i]
                      THEN SetExplanation(rules[k][i])
                      ELSE rules[k][i]]]]

\* lines 84-101, on the lowered requirement text rt and the lowered steps text
AssessLowered(rules, rt, steps_text) ==
    CHOOSE r \in { Explained(rules, a4) :
                     a4 \in { StepsRule(a3, rules, steps_text) :
                                a3 \in {RequirementRules(rules, rt)} } } : TRUE

\* assess_test_and_justify(requirement_text, test_case) on the catalog rules
Assess(rules, req, steps) ==
    CHOOSE r \in { AssessLowered(rules, rt, steps_text) :
                     rt \in {Lower(req)}, steps_text \in {Lower(Join(steps))} } :
        TRUE

InitEngine ==
    /\ RULES = RULES0
    /\ lastAssess = [called |-> FALSE, req |-> <<>>, steps |-> <<>>,
                     just |-> <<>>, score |-> 0, warm |-> FALSE]

\* one call of engine.assess_test_and_justify (main.py line 120 makes them)
AssessCall(req, steps) ==
    \E r \in {Assess(RULES, req, steps)} :
        /\ RULES' = r.rules
        /\ lastAssess' =
              [called |-> TRUE, req |-> req, steps |-> steps, just |-> r.just,
               score |-> r.score,
               warm |-> \E n \in DOMAIN r.just :
                           /\ IsAlias(r.just[n])
                           /\ "explanation" \in DOMAIN Deref(RULES, r.just[n])]
        /\ UNCHANGED <<ledgerVars, concVars, lastLLM>>

----------------------------------------------------------------------------
(* Test Proposal Source: src/compliance.py lines 16-69 *)

NoKey == "None"
Keys == {NoKey, "", "sk-test"}

\* what response.choices[0].message.content turns out to be
Contents == {"tests", "no_tests_key", "json_array", "bad_json", "content_none",
             "no_choices"}

\* the list a well-formed answer carries under "tests"
LLMTests ==
    << [title |-> "Generated case",
        steps |-> <<"Open record", "Check audit entry">>] >>

\* base, lines 51-68
FallbackTests ==
    << [title |-> "Positive - happy path",
        steps |-> <<"Set up valid user with required roles",
                    "Perform action per requirement",
                    "Check success response and audit log">>],
       [title |-> "Negative - invalid input",
        steps |-> <<"Use malformed input",
                    "Verify rejection with proper error code",
                    "Ensure no data leakage">>] >>

\* if openai_key and OpenAI:
Configured(key, lib) == key # NoKey /\ key # "" /\ lib

\* lines 36-48: whether the body of the try block raises
TryRaises(request, content) ==
    \/ request = "raise"
    \/ content \in {"json_array", "bad_json", "content_none", "no_choices"}

\* generate_tests_via_llm: [status, tests]; status "raised" is an exception
\* leaving the function
GenerateTestsViaLLM(key, lib, construct, request, content) ==
    IF Configured(key, lib)
    THEN IF construct = "raise"
         THEN [status |-> "raised", tests |-> <<>>]
         ELSE IF TryRaises(request, content)
              THEN [status |-> "returned", tests |-> FallbackTests]
              ELSE [status |-> "returned",
                    tests |-> IF content = "tests" THEN LLMTests ELSE <<>>]
    ELSE [status |-> "returned", tests |-> FallbackTests]

InitLLM ==
    lastLLM = [called |-> FALSE, key |-> NoKey, lib |-> FALSE, construct |-> "ok",
               request |-> "ok", content |-> "tests", status |-> "returned",
               tests |-> <<>>]

\* one call of generate_tests_via_llm (main.py line 116 makes them)
LLMCall(key, lib, construct, request, content) ==
    LET r == GenerateTestsViaLLM(key, lib, construct, request, content)
    IN  /\ lastLLM' = [called |-> TRUE, key |-> key, lib |-> lib,
                       construct |-> construct, request |-> request,
                       content |-> content, status |-> r.status,
                       tests |-> r.tests]
        /\ UNCHANGED <<ledgerVars, concVars, engineVars>>

----------------------------------------------------------------------------
(* Specifications *)

Init == InitLedger /\ InitConc /\ InitEngine /\ InitLLM

NextLedger ==
    \/ \E payload \in Payloads, ts \in Timestamps,
          fault \in {"none", "insert", "commit"} :
            LedgerAppend(payload, ts, fault)
    \/ \E limit \in Limits : LedgerReadLatest(limit)

NextConc ==
    \/ \E p \in Procs, payload \in Payloads, ts \in Timestamps :
            AppendSelect(p, payload, ts)
    \/ \E p \in Procs : AppendInsert(p)
    \/ \E p \in Procs : AppendCommit(p)

NextEngine == \E req \in ReqTexts, steps \in StepsLists : AssessCall(req, steps)

NextLLM ==
    \E key \in Keys, lib \in BOOLEAN, construct \in {"ok", "raise"},
       request \in {"ok", "raise"}, content \in Contents :
        LLMCall(key, lib, construct, request, content)

SpecLedger == Init /\ [][NextLedger]_vars
SpecConc == Init /\ [][NextConc]_vars
SpecEngine == Init /\ [][NextEngine]_vars
SpecLLM == Init /\ [][NextLLM]_vars

----------------------------------------------------------------------------
(* Claims about the Ledger *)

AllDone == \A p \in Procs : conn[p].pc = "done"

\* C1: after K >= 2 concurrent appends against an empty ledger, under every
\* interleaving of their read-tip and insert steps, the ledger holds exactly K
\* entries with sequence 1..K and no two stored entries have the same
\* prev_hash (the chain has no fork).
C1_NoForkUnderConcurrency ==
    AllDone =>
        /\ Len(ledger) = NumProcs
        /\ \A i \in 1..Len(ledger) : ledger[i].idx = i
        /\ \A i, j \in 1..Len(ledger) :
              i # j => ledger[i].prev_hash # ledger[j].prev_hash

\* C2: after any sequence of sequential appends every stored entry's hash is
\* the digest of its own (timestamp, payload, prev_hash), the entry with
\* sequence 1 has the empty prev_hash, and every entry with sequence n > 1 has
\* the hash of the entry with sequence n-1 as its prev_hash.
C2_ChainIntegrity ==
    \A i \in 1..Len(ledger) :
        LET e == ledger[i]
        IN  /\ e.hash = Digest(Blob(e.timestamp, e.payload, e.prev_hash))
            /\ e.idx = 1 => e.prev_hash = EmptyHash
            /\ e.idx > 1 =>
                  \E j \in 1..Len(ledger) :
                      ledger[j].idx = e.idx - 1 /\ e.prev_hash = ledger[j].hash

\* a second entry appended after a failed append, linked to the first
C2_Witness ==
    /\ Len(ledger) = 2
    /\ outcomes = <<"ok", "commit", "ok">>
    /\ ledger[2].idx = 2
    /\ ledger[2].prev_hash = ledger[1].hash

CountOk(os) == Cardinality({n \in 1..Len(os) : os[n] = "ok"})

\* C3: with appends failing at the insert or the commit step, the stored
\* entries have sequence exactly 1..N in append order, N the number of appends
\* that returned a hash; a failed append adds no entry, changes no existing
\* entry and consumes no sequence number.
C3_FailedAppendAtomic ==
    /\ [](/\ Len(ledger) = CountOk(outcomes)
          /\ Len(returned) = Len(ledger)
          /\ \A i \in 1..Len(ledger) :
                ledger[i].idx = i /\ ledger[i].hash = returned[i])
    /\ [][(/\ Len(outcomes') = Len(outcomes) + 1
           /\ outcomes'[Len(outcomes')] # "ok")
          => (ledger' = ledger /\ sqlite_sequence' = sqlite_sequence)]_vars

\* an insert fault and a commit fault, and a returning append after both
C3_Witness ==
    /\ Len(outcomes) = 3
    /\ outcomes[1] = "insert" /\ outcomes[2] = "commit" /\ outcomes[3] = "ok"
    /\ Len(ledger) = 1

\* C4: for a ledger of N entries and a limit > 0, read_latest(limit) returns
\* exactly min(limit, N) entries, those with the highest sequence values, by
\* strictly descending sequence, each as stored (so each returned entry's
\* prev_hash is the hash of the entry returned after it).
C4_ReadLatestNewestFirst ==
    (lastRead.called /\ lastRead.limit > 0) =>
        LET rows == lastRead.rows
            table == lastRead.table
            N == Len(table)
        IN  /\ Len(rows) = (IF lastRead.limit < N THEN lastRead.limit ELSE N)
            /\ \A i \in 1..Len(rows) : rows[i] = table[N + 1 - i]
            /\ \A i \in 1..(Len(rows) - 1) :
                  /\ rows[i].idx > rows[i + 1].idx
                  /\ rows[i].prev_hash = rows[i + 1].hash

\* a, b, c appended; read_latest(2) returned c then b
C4_Witness ==
    /\ lastRead.called /\ lastRead.limit = 2
    /\ Len(lastRead.table) = 3
    /\ \A i \in 1..3 : lastRead.table[i].payload = <<"a", "b", "c">>[i]
    /\ Len(lastRead.rows) = 2
    /\ lastRead.rows[1].payload = "c" /\ lastRead.rows[2].payload = "b"

\* C5: for every limit <= 0 and every ledger content, read_latest(limit)
\* fails or returns an empty sequence; it never returns an entry.
C5_NonPositiveLimitReturnsNothing ==
    (lastRead.called /\ lastRead.limit <= 0) => lastRead.rows = <<>>

----------------------------------------------------------------------------
(* Claims about the Compliance Justification Engine *)

InReq(trig) == Contains(trig, Lower(lastAssess.req))
InSteps(trig) == Contains(trig, Lower(Join(lastAssess.steps)))
Indicator(b, n) == IF b THEN n ELSE 0
LastView == View(RULES, lastAssess.just)
Count21CFR == Cardinality({i \in DOMAIN LastView : LastView[i].reg = "21CFR"})

\* the score before the clamp, in thousandths
ExpectedSum ==
    200 + Indicator(InReq(TrigPhi), 400) + Indicator(InReq(TrigAudit), 300)
        + Indicator(InReq(TrigEncrypt), 250)
        + Indicator(InSteps(TrigAudit) /\ ~InReq(TrigAudit), 100)

\* C6: the score equals min(1.0, 0.2 + 0.4[phi in requirement] + 0.3[audit in
\* requirement] + 0.25[encrypt in requirement] + 0.1[audit in steps and no
\* 21CFR citation from the requirement]), case-insensitively, in thousandths;
\* it lies in [0.0, 1.0]; an input matching no trigger yields an empty
\* justification list and exactly 0.2.
C6_ScoreFormula ==
    lastAssess.called =>
        /\ lastAssess.score = (IF ExpectedSum > 1000 THEN 1000 ELSE ExpectedSum)
        /\ lastAssess.score >= 0 /\ lastAssess.score <= 1000
        /\ (~InReq(TrigPhi) /\ ~InReq(TrigAudit) /\ ~InReq(TrigEncrypt)
              /\ ~InSteps(TrigAudit))
           => (lastAssess.just = <<>> /\ lastAssess.score = 200)

\* all three triggers in the requirement: 1.15 clamped to 1.0
C6_Witness ==
    /\ lastAssess.called
    /\ InReq(TrigPhi) /\ InReq(TrigAudit) /\ InReq(TrigEncrypt)
    /\ ExpectedSum = 1150
    /\ lastAssess.score = 1000

\* C7: the justification list holds at most one 21CFR citation: when the
\* requirement mentions audit the catalog citation is present and an audit
\* mention in the steps adds neither a second citation nor +0.1; when only the
\* steps mention audit, exactly one 21CFR/11.10 citation with the
\* steps-specific message is added together with +0.1.
C7_SingleAuditCitation ==
    lastAssess.called =>
        LET withoutSteps ==
                200 + Indicator(InReq(TrigPhi), 400)
                    + Indicator(InReq(TrigAudit), 300)
                    + Indicator(InReq(TrigEncrypt), 250)
            clamp(x) == IF x > 1000 THEN 1000 ELSE x
        IN  /\ Count21CFR <= 1
            /\ InReq(TrigAudit) =>
                  /\ \E i \in DOMAIN LastView :
                        /\ LastView[i].reg = "21CFR"
                        /\ LastView[i].clause = "11.10"
                        /\ LastView[i].msg = <<"Audit trails required.">>
                  /\ lastAssess.score = clamp(withoutSteps)
            /\ (InSteps(TrigAudit) /\ ~InReq(TrigAudit)) =>
                  /\ Count21CFR = 1
                  /\ \E i \in DOMAIN LastView :
                        /\ LastView[i].reg = "21CFR"
                        /\ LastView[i].clause = "11.10"
                        /\ LastView[i].msg = <<"Audit trail mentioned in steps.">>
                  /\ lastAssess.score = clamp(withoutSteps + 100)

\* audit in the requirement and in the steps: one citation, score 0.5
C7_Witness ==
    /\ lastAssess.called
    /\ InReq(TrigAudit) /\ InSteps(TrigAudit)
    /\ ~InReq(TrigPhi) /\ ~InReq(TrigEncrypt)
    /\ Count21CFR = 1
    /\ lastAssess.score = 500

\* C8: whatever assess calls came before, a call returns the justification
\* list (same records, fields and order) and the score that the same call
\* returns as the first call on a fresh engine.
C8_DeterministicAcrossHistory ==
    lastAssess.called =>
        LET fresh == Assess(RULES0, lastAssess.req, lastAssess.steps)
        IN  /\ LastView = View(fresh.rules, fresh.just)
            /\ lastAssess.score = fresh.score

\* a call whose justification reuses a catalog record an earlier call wrote to
C8_Witness ==
    /\ lastAssess.called
    /\ lastAssess.warm
    /\ Len(lastAssess.just) >= 2

\* C9: the Rule Catalog is never changed by assess: every catalog record keeps
\* exactly the fields and values of process start (reg, clause, msg), and a
\* returned record is not the same mutable object as a catalog record or as a
\* record returned to another caller.
C9_CatalogUnchanged ==
    /\ RULES = RULES0
    /\ \A n \in DOMAIN lastAssess.just : ~IsAlias(lastAssess.just[n])

----------------------------------------------------------------------------
(* Claims about the Test Proposal Source *)

\* the source is unconfigured, or fails at client construction, at the
\* request or at parsing the response
SourceUnavailable ==
    \/ ~Configured(lastLLM.key, lastLLM.lib)
    \/ lastLLM.construct = "raise"
    \/ TryRaises(lastLLM.request, lastLLM.content)

\* C10: generate_tests_via_llm never fails its caller: with the source
\* unconfigured or failing at any step (client construction, request, response
\* parsing) it returns the fixed fallback list of exactly two proposals, one
\* positive and one negative, each with a title and a non-empty list of steps,
\* and no error propagates.
C10_FallbackNeverFails ==
    lastLLM.called =>
        /\ lastLLM.status # "raised"
        /\ SourceUnavailable =>
              /\ lastLLM.tests = FallbackTests
              /\ Len(lastLLM.tests) = 2
              /\ \A i \in 1..Len(lastLLM.tests) : lastLLM.tests[i].steps # <<>>

====
